---- MODULE Spec2Model ----
(***************************************************************************)
(* A model of the schedule ingestion pipeline and the guideline            *)
(* conformance query of the SVSU course scheduler:                         *)
(*   src/src/server/api/routers/projects.ts  (verifyOrganizedColumns,      *)
(*       createScheduleRevision, invertedNestedOrganizedColumns)           *)
(*   src/src/server/api/routers/calendar.ts  (getRevision)                 *)
(*   src/src/validation/courses.ts           (courseSchema)                *)
(*                                                                         *)
(* Texts are sequences of one-character strings, so that splitting,        *)
(* trimming and integer parsing are computed the way the code computes     *)
(* them.  The specifications of the module:                                 *)
(*   Spec      the request handlers running against the store              *)
(*   SpecTime  convertTimeToMilitary applied to bounded time texts         *)
(*   SpecConf  getRevision's conformance query over bounded stores         *)
(*   SpecText  convertTimeToMilitary applied to arbitrary short texts      *)
(*   SpecCodec militaryToSplit and the stored-integer encoder              *)
(*   SpecCells the days and term cells of a sheet row, decoded             *)
(*   SpecMapper the projection of a sheet's rows onto the mapped fields    *)
(*   SpecDelete the request handlers with deleteScheduleRevision           *)
(*   SpecResolve the concurrent building lookups of one row                *)
(***************************************************************************)
EXTENDS Integers, Sequences, FiniteSets, TLC

VARIABLES
  db,         \* Spec: the store (revisions, schedules, courses, reference data)
  req,        \* Spec: the state of each in-flight request
  calls,      \* Spec: how many requests have been started
  lastVerify, \* Spec (history): the last completed verifyOrganizedColumns call
  timeIn,     \* SpecTime: the text handed to convertTimeToMilitary
  timeOut,    \* SpecTime: [done, value]: whether it was called and what it returned
  timeCase,   \* SpecTime: the hour, minute and marker the text was built from
  cal,        \* SpecConf: the guidelines and the courses of the revision
  answer,     \* SpecConf: the last getRevision call on the store as it is, or
              \*           what the last addNewRevisonCourse call validated
  cellCase,   \* SpecCells: the days, term parts and credits of one sheet row
  cellOut,    \* SpecCells: [done, out, verdict]: the row after
              \*            mergedCourseOutput and what the schema says of it
  sheetIn,    \* SpecMapper: sheet.data: the header row, then the rows
  sheetOut,   \* SpecMapper: [done, rows, data]: the projected rows
  rowCase,    \* SpecResolve: the lines the cells of one row were built from
  lookup      \* SpecResolve: the building lookups of locations() in flight

timeVars == <<timeIn, timeOut, timeCase>>

pipeVars == <<db, req, calls, lastVerify>>

confVars == <<cal, answer>>

cellVars == <<cellCase, cellOut>>

mapVars == <<sheetIn, sheetOut>>

resolveVars == <<rowCase, lookup>>

vars == <<db, req, calls, lastVerify, timeIn, timeOut, timeCase, cal, answer,
          cellCase, cellOut, sheetIn, sheetOut, rowCase, lookup>>

----------------------------------------------------------------------------
(* JavaScript values and text primitives                                   *)

\* The encoding of JavaScript's not-a-number value among the integers.
NaN == 0 - 999999

\* The encoding of `undefined` where a text is expected.
Undefined == <<"undefined">>

IsDigit(c) == c \in {"0", "1", "2", "3", "4", "5", "6", "7", "8", "9"}

DigitVal(c) ==
  CASE c = "0" -> 0 [] c = "1" -> 1 [] c = "2" -> 2 [] c = "3" -> 3
    [] c = "4" -> 4 [] c = "5" -> 5 [] c = "6" -> 6 [] c = "7" -> 7
    [] c = "8" -> 8 [] c = "9" -> 9

DigitChar(d) ==
  CASE d = 0 -> "0" [] d = 1 -> "1" [] d = 2 -> "2" [] d = 3 -> "3"
    [] d = 4 -> "4" [] d = 5 -> "5" [] d = 6 -> "6" [] d = 7 -> "7"
    [] d = 8 -> "8" [] d = 9 -> "9"

\* White space as String.prototype.trim and parseInt see it.
IsSpace(c) == c \in {" ", "\t", "\n", "\r"}

\* The array Array.prototype.map returns: every element is computed when the
\* array is built.
Array(f) == f \o <<>>

RECURSIVE TrimStart(_)
TrimStart(s) ==
  IF s # <<>> /\ IsSpace(Head(s)) THEN TrimStart(Tail(s)) ELSE s

RECURSIVE TrimEnd(_)
TrimEnd(s) ==
  IF s # <<>> /\ IsSpace(s[Len(s)]) THEN TrimEnd(SubSeq(s, 1, Len(s) - 1)) ELSE s

\* String.prototype.trim
Trim(s) == TrimEnd(TrimStart(s))

\* String.prototype.includes
Includes(s, sub) ==
  \E i \in 1..(Len(s) - Len(sub) + 1) : SubSeq(s, i, i + Len(sub) - 1) = sub

\* String.prototype.substring(0, n)
Substring0(s, n) == SubSeq(s, 1, IF Len(s) < n THEN Len(s) ELSE n)

\* String.prototype.split on a one-character separator: the segments between
\* the separators, empty segments kept.
RECURSIVE SplitAcc(_, _, _)
SplitAcc(s, sep, cur) ==
  IF s = <<>> THEN <<cur>>
  ELSE IF Head(s) = sep THEN <<cur>> \o SplitAcc(Tail(s), sep, <<>>)
  ELSE SplitAcc(Tail(s), sep, Append(cur, Head(s)))

Split(s, sep) == SplitAcc(s, sep, <<>>)

\* The longest prefix of decimal digits.
RECURSIVE LeadingDigits(_)
LeadingDigits(s) ==
  IF s # <<>> /\ IsDigit(Head(s)) THEN <<Head(s)>> \o LeadingDigits(Tail(s)) ELSE <<>>

RECURSIVE DigitsValue(_, _)
DigitsValue(s, acc) ==
  IF s = <<>> THEN acc ELSE DigitsValue(Tail(s), acc * 10 + DigitVal(Head(s)))

\* The global parseInt (radix 10): leading white space and one sign are skipped,
\* the digits up to the first other character are read, no digit gives NaN.
ParseInt(s) ==
  LET t == TrimStart(s)
      signed == t # <<>> /\ Head(t) \in {"+", "-"}
      u == IF signed THEN Tail(t) ELSE t
      d == LeadingDigits(u)
  IN  IF s = Undefined \/ d = <<>> THEN NaN
      ELSE IF signed /\ Head(t) = "-" THEN 0 - DigitsValue(d, 0)
      ELSE DigitsValue(d, 0)

RECURSIVE NatToStr(_)
NatToStr(n) ==
  IF n < 10 THEN <<DigitChar(n)>> ELSE NatToStr(n \div 10) \o <<DigitChar(n % 10)>>

\* The text a template literal gives a number.
NumToStr(n) ==
  IF n = NaN THEN <<"N", "a", "N">>
  ELSE IF n < 0 THEN <<"-">> \o NatToStr(0 - n)
  ELSE NatToStr(n)

\* Addition of JavaScript numbers: not-a-number absorbs.
JsAdd(a, b) == IF a = NaN \/ b = NaN THEN NaN ELSE a + b

----------------------------------------------------------------------------
(* TimeCodec: convertTimeToMilitary                                         *)

\* The time text after the code's try/finally: `${hour}${minute == 0 ? "00" : minute}`.
MergeTime(hour, minute) ==
  NumToStr(hour) \o (IF minute = 0 THEN <<"0", "0">> ELSE NumToStr(minute))

\* The hour after the PM adjustment: value.includes("PM") && hour != 12.
AdjustHour(value, hour) ==
  IF Includes(value, <<"P", "M">>) /\ hour # 12 THEN JsAdd(hour, 12) ELSE hour

\* The minute token: at most the first two characters of the second segment.
MinuteToken(seg) ==
  IF Len(seg) > 1 THEN Substring0(seg, 2) ELSE Substring0(seg, 1)

convertTimeToMilitary(value) ==
  IF value = Undefined THEN 0
  ELSE LET splittedTime == Split(value, ":")
       IN  IF Len(splittedTime) = 2
           THEN LET hour == AdjustHour(value, ParseInt(splittedTime[1]))
                    minute == ParseInt(MinuteToken(splittedTime[2]))
                IN  ParseInt(MergeTime(hour, minute))
           ELSE ParseInt(<<"0">>)

----------------------------------------------------------------------------
(* More text primitives used by the resolver                                *)

UpperCase == <<"A", "B", "C", "D", "E", "F", "G", "H", "I", "J", "K", "L", "M",
               "N", "O", "P", "Q", "R", "S", "T", "U", "V", "W", "X", "Y", "Z">>

LowerCase == <<"a", "b", "c", "d", "e", "f", "g", "h", "i", "j", "k", "l", "m",
               "n", "o", "p", "q", "r", "s", "t", "u", "v", "w", "x", "y", "z">>

LowerChar(c) ==
  IF \E i \in 1..Len(UpperCase) : UpperCase[i] = c
  THEN LowerCase[CHOOSE i \in 1..Len(UpperCase) : UpperCase[i] = c]
  ELSE c

\* String.prototype.toLowerCase
ToLowerCase(s) == Array([i \in 1..Len(s) |-> LowerChar(s[i])])

\* String.prototype.split(/\r\n|\n|\r/)
RECURSIVE SplitLinesAcc(_, _)
SplitLinesAcc(s, cur) ==
  IF s = <<>> THEN <<cur>>
  ELSE IF Head(s) = "\r" /\ Len(s) > 1 /\ s[2] = "\n"
       THEN <<cur>> \o SplitLinesAcc(Tail(Tail(s)), <<>>)
  ELSE IF Head(s) \in {"\n", "\r"} THEN <<cur>> \o SplitLinesAcc(Tail(s), <<>>)
  ELSE SplitLinesAcc(Tail(s), Append(cur, Head(s)))

SplitLines(s) == SplitLinesAcc(s, <<>>)

\* Array indexing (0-based index i): out of range gives undefined.
At(arr, i) == IF i + 1 \in 1..Len(arr) THEN arr[i + 1] ELSE Undefined

\* A variant of the membership test: some element contains the text.
ArrayContainsText(arr, x) == \E i \in 1..Len(arr) : Includes(arr[i], x)

\* Array.prototype.includes: membership of an element, by equality.
ArrayIncludes(arr, x) == \E i \in 1..Len(arr) : arr[i] = x

\* A template literal `${item}`: undefined becomes the nine-letter text.
TemplateText(item) ==
  IF item = Undefined THEN <<"u", "n", "d", "e", "f", "i", "n", "e", "d">> ELSE item

SetMax(S) == CHOOSE x \in S : \A y \in S : y <= x

\* A JavaScript value that may be a number, a text, null or undefined.
JsNum(n) == [t |-> "num", n |-> n, s |-> <<>>]
JsStr(s) == [t |-> "str", n |-> 0, s |-> s]
JsNull == [t |-> "null", n |-> 0, s |-> <<>>]
JsUndef == [t |-> "undef", n |-> 0, s |-> <<>>]

----------------------------------------------------------------------------
(* ColumnMapper: the first half of invertedNestedOrganizedColumns           *)

\* The semantic fields of the column-mapping contract that decide validation
\* and resolution.  The pass-through text fields (div, course_number,
\* instruction_method, campus, the dates, the three notes) are left out: the
\* code copies them and the course schema accepts any text for them.
FieldOrder == <<"section_id", "term", "department", "subject", "section", "title",
                "faculty", "credits", "capacity", "building", "room", "start_time",
                "end_time", "days">>

FieldNames == {FieldOrder[i] : i \in 1..Len(FieldOrder)}

\* invertOrganizedColumns[index], "_" for a column no field is mapped to.  The
\* reduce over Object.entries lets a later field overwrite an earlier one.
getIndexFromOrganizedColumns(organizedColumns, index) ==
  LET ks == {j \in 1..Len(FieldOrder) :
               /\ FieldOrder[j] \in DOMAIN organizedColumns
               /\ organizedColumns[FieldOrder[j]] = index}
  IN  IF ks = {} THEN "_" ELSE FieldOrder[SetMax(ks)]

\* One row reduced to an object keyed by field name; a key no cell produced is
\* undefined, and a later cell overwrites an earlier one under the same key.
ProjectRow(organizedColumns, c) ==
  [k \in FieldNames \cup {"_"} |->
     LET is == {i \in 1..Len(c) : getIndexFromOrganizedColumns(organizedColumns, i - 1) = k}
     IN  IF is = {} THEN Undefined ELSE TemplateText(c[SetMax(is)])]

ObjectKeys(obj) == {k \in DOMAIN obj : obj[k] # Undefined}

\* columns.splice(1).map(reduce).filter(Object.keys(ele).length > 0)
RECURSIVE FilterNonEmpty(_)
FilterNonEmpty(objs) ==
  IF objs = <<>> THEN <<>>
  ELSE IF ObjectKeys(Head(objs)) # {} THEN <<Head(objs)>> \o FilterNonEmpty(Tail(objs))
  ELSE FilterNonEmpty(Tail(objs))

invertedOrganizedColumns(columns, organizedColumns) ==
  FilterNonEmpty(Array([i \in 1..(Len(columns) - 1) |->
                          ProjectRow(organizedColumns, columns[i + 1])]))

----------------------------------------------------------------------------
(* EntityResolver: the second half of invertedNestedOrganizedColumns        *)

ONL == <<"O", "N", "L">>

\* A variant of the lookup without its where clause: the first building stored.
AnyBuildingTuid(buildings, item) == (CHOOSE b \in buildings : TRUE).tuid

\* prisma.guidelineBuilding.findFirst({where: {prefix: item}})?.tuid
BuildingTuid(buildings, item) ==
  IF \E b \in buildings : b.prefix = item
  THEN (CHOOSE b \in buildings : b.prefix = item).tuid
  ELSE Undefined

\* prisma.guidelinesFaculty.findFirst({where: {name: faculty.toLowerCase()}})?.tuid
FacultyTuid(faculty, name) ==
  IF \E f \in faculty : f.name = ToLowerCase(name)
  THEN (CHOOSE f \in faculty : f.name = ToLowerCase(name)).tuid
  ELSE Undefined

LinesOf(cell) == IF cell # Undefined THEN SplitLines(cell) ELSE <<>>

TrimmedLinesOf(cell) ==
  IF cell # Undefined
  THEN LET ls == SplitLines(cell) IN Array([i \in 1..Len(ls) |-> Trim(ls[i])])
  ELSE <<>>

updatedDays(data) ==
  IF data.days # Undefined
  THEN LET ls == SplitLines(Trim(data.days)) IN Array([i \in 1..Len(ls) |-> ToLowerCase(ls[i])])
  ELSE <<>>

updateFaculty(data) ==
  IF data.faculty # Undefined THEN SplitLines(Trim(data.faculty)) ELSE <<>>

\* The Location built for building token `item` at 0-based position `index`.
LocationAt(buildings, data, item, index) ==
  LET found == BuildingTuid(buildings, item)
      days == updatedDays(data)
  IN  [ building |-> item,
        rooms |-> IF item # ONL
                  THEN << [ room |-> At(LinesOf(data.room), index),
                            building_tuid |-> IF found # Undefined THEN found ELSE item ] >>
                  ELSE <<>>,
        start_time |-> convertTimeToMilitary(Trim(At(TrimmedLinesOf(data.start_time), index))),
        end_time |-> convertTimeToMilitary(Trim(At(TrimmedLinesOf(data.end_time), index))),
        is_online |-> item = ONL,
        day_monday |-> ArrayIncludes(days, <<"m">>),
        day_tuesday |-> ArrayIncludes(days, <<"t">>),
        day_wednesday |-> ArrayIncludes(days, <<"w">>),
        day_thursday |-> ArrayIncludes(days, <<"r">>) \/ ArrayIncludes(days, <<"t", "h">>),
        day_friday |-> ArrayIncludes(days, <<"f">>),
        day_saturday |-> ArrayIncludes(days, <<"s", "a", "t">>),
        day_sunday |-> ArrayIncludes(days, <<"s", "u", "n">>) ]

\* locations(): one Location per line of the building cell, in cell order.
locations(buildings, data) ==
  LET updatedBuilding == LinesOf(data.building)
  IN  Array([i \in 1..Len(updatedBuilding) |->
               LocationAt(buildings, data, updatedBuilding[i], i - 1)])

\* faculty(): one link per line of the faculty cell, the raw name on a miss.
facultyLinks(faculty, data) ==
  LET names == updateFaculty(data)
  IN  Array([i \in 1..Len(names) |->
               LET found == FacultyTuid(faculty, names[i])
               IN  [faculty_tuid |-> IF found # Undefined THEN found ELSE names[i]]])

\* new Date().getFullYear() when the validation module was loaded.
CurrentYear == 2026

\* getTermYear(term) || new Date().getFullYear() + "", then parseInt
getTermYear(term) ==
  LET seg == Split(term, "/")[1]
  IN  ParseInt(IF seg = <<>> THEN NumToStr(CurrentYear) ELSE seg)

\* A variant that compares the second segment as it stands, without trim().
getTermSemesterUntrimmed(term) ==
  LET parts == Split(term, "/")
      semester == IF Len(parts) >= 2 THEN parts[2] ELSE Undefined
  IN  [ semester_summer |-> semester = <<"S", "U">>,
        semester_fall |-> semester = <<"F", "A">>,
        semester_winter |-> semester = <<"W", "I">>,
        semester_spring |-> semester = <<"S", "P">> ]

getTermSemester(term) ==
  LET parts == Split(term, "/")
      semester == IF Len(parts) >= 2 THEN Trim(parts[2]) ELSE Undefined
  IN  [ semester_summer |-> semester = <<"S", "U">>,
        semester_fall |-> semester = <<"F", "A">>,
        semester_winter |-> semester = <<"W", "I">>,
        semester_spring |-> semester = <<"S", "P">> ]

\* parseInt(x) || 0
ParseIntOrZero(cell) == LET n == ParseInt(cell) IN IF n = NaN THEN 0 ELSE n

\* parseInt(data.section) || data.section
SectionValue(cell) ==
  LET n == ParseInt(cell)
  IN  IF n # NaN /\ n # 0 THEN JsNum(n)
      ELSE IF cell = Undefined THEN JsUndef ELSE JsStr(cell)

\* mergedCourseOutput for one projected row.  getTermYear and getTermSemester
\* call term.split, which throws on an undefined term.
mergedCourseOutput(refs, data) ==
  IF data.term = Undefined THEN [threw |-> TRUE]
  ELSE [ threw |-> FALSE,
         section_id |-> IF data.section_id = Undefined THEN JsNull
                        ELSE JsNum(ParseInt(data.section_id)),
         term |-> getTermYear(data.term),
         semester |-> getTermSemester(data.term),
         department |-> data.department,
         subject |-> data.subject,
         section |-> SectionValue(data.section),
         credits |-> ParseIntOrZero(data.credits),
         title |-> data.title,
         capacity |-> ParseIntOrZero(data.capacity),
         faculty |-> facultyLinks(refs.faculty, data),
         locations |-> locations(refs.buildings, data) ]

\* invertedNestedOrganizedColumns: every row mapped, then resolved (Promise.all
\* keeps the rows in sheet order whatever order the lookups complete in).
invertedNestedOrganizedColumns(refs, columns, organizedColumns) ==
  LET rows == invertedOrganizedColumns(columns, organizedColumns)
  IN  Array([i \in 1..Len(rows) |-> mergedCourseOutput(refs, rows[i])])

----------------------------------------------------------------------------
(* RowValidator: courseSchema, the schema the import validates rows with    *)

\* z.string().cuid(): /^c[^\s-]{8,}$/i
IsCuid(s) ==
  /\ s # Undefined
  /\ Len(s) >= 9
  /\ s[1] \in {"c", "C"}
  /\ \A i \in 2..Len(s) : ~IsSpace(s[i]) /\ s[i] # "-"

\* z.number(): a number that is not NaN.
IsNumber(v) == v.t = "num" /\ v.n # NaN

\* new Date().getFullYear().toString().substr(2, 2)
twoDigitYear == CurrentYear % 100

\* z.string().min(lo).max(hi) under .partial(): an absent key passes.
TextWithin(s, lo, hi) == s = Undefined \/ (Len(s) >= lo /\ Len(s) <= hi)

roomsSchema(room) == room.room # Undefined /\ IsCuid(room.building_tuid)

locationsSchema(loc) ==
  /\ loc.start_time # NaN
  /\ loc.end_time # NaN
  /\ \A i \in 1..Len(loc.rooms) : roomsSchema(loc.rooms[i])

facultyToCourseSchema(link) == IsCuid(link.faculty_tuid)

\* flag == false: an absent flag is undefined, which is not == false.
IsFalse(sem, flag) == flag \in DOMAIN sem /\ sem[flag] = FALSE

AnySemester(sem) ==
  ~(IsFalse(sem, "semester_fall") /\ IsFalse(sem, "semester_winter")
      /\ IsFalse(sem, "semester_spring") /\ IsFalse(sem, "semester_summer"))

\* The field paths courseSchema reports for a row (the empty set: the row is
\* accepted).  "semester" stands for the refinement's form error.
courseSchemaErrors(row) ==
  (IF IsNumber(row.section_id) /\ row.section_id.n >= 1 THEN {} ELSE {"section_id"})
  \cup (IF row.term # NaN /\ row.term >= twoDigitYear - 2 /\ row.term <= twoDigitYear + 2
        THEN {} ELSE {"term"})
  \cup (IF TextWithin(row.department, 2, 6) THEN {} ELSE {"department"})
  \cup (IF TextWithin(row.subject, 2, 6) THEN {} ELSE {"subject"})
  \cup (IF row.section.t = "undef"
           \/ (IsNumber(row.section) /\ row.section.n >= 0 /\ row.section.n <= 500)
        THEN {} ELSE {"section"})
  \cup (IF row.credits # NaN THEN {} ELSE {"credits"})
  \cup (IF TextWithin(row.title, 7, 100) THEN {} ELSE {"title"})
  \cup (IF row.capacity >= 1 /\ row.capacity <= 500 THEN {} ELSE {"capacity"})
  \cup (IF Len(row.faculty) >= 1
           /\ \A i \in 1..Len(row.faculty) : facultyToCourseSchema(row.faculty[i])
        THEN {} ELSE {"faculty"})
  \cup (IF \A i \in 1..Len(row.locations) : locationsSchema(row.locations[i])
        THEN {} ELSE {"locations"})
  \cup (IF AnySemester(row.semester) THEN {} ELSE {"semester"})

\* excelCourseSchema.safeParseAsync(row): the import's schema is the course
\* schema of validation/courses.ts.
excelCourseSchema(row) ==
  LET errors == courseSchemaErrors(row)
  IN  [success |-> errors = {}, errors |-> errors]

----------------------------------------------------------------------------
(* The uploaded spreadsheets and the reference data the handlers run against *)

\* Bounds of the model: rows per uploaded sheet, requests started per run.
MaxRows == 2
MaxCalls == 2

Reqs == {"a", "b"}

\* Reference data (guidelinesFaculty, guidelineBuilding); no modelled operation
\* writes it.
FacultyRecords ==
  { [tuid |-> <<"c", "f", "a", "c", "u", "l", "t", "y", "1">>,
     name |-> <<"s", "m", "i", "t", "h">>] }

BuildingRecords ==
  { [tuid |-> <<"c", "b", "u", "i", "l", "d", "i", "n", "g", "1">>,
     prefix |-> <<"S", "E">>] }

Refs == [faculty |-> FacultyRecords, buildings |-> BuildingRecords]

\* The cells of one well-formed course section.
BaseCells ==
  [ section_id |-> <<"1", "0", "1">>,
    term |-> <<"2", "6", "/", "F", "A">>,
    department |-> <<"C", "S">>,
    subject |-> <<"C", "S">>,
    section |-> <<"1">>,
    title |-> <<"A", "l", "g", "e", "b", "r", "a", " ", "I">>,
    faculty |-> <<"S", "m", "i", "t", "h">>,
    credits |-> <<"3">>,
    capacity |-> <<"3", "0">>,
    building |-> <<"S", "E">>,
    room |-> <<"1", "0", "1">>,
    start_time |-> <<"9", ":", "0", "0">>,
    end_time |-> <<"1", "0", ":", "1", "5">>,
    days |-> <<"m">> ]

\* The course sections an uploaded sheet is made of: (1) a resolvable one; ones
\* whose faculty has no match by name, the raw text being (2) not
\* identifier-shaped, (3) identifier-shaped, (4) the identifier of a stored
\* faculty; (5) one whose building has no match; (6) one whose title is too
\* short.
CellsCatalogue ==
  << BaseCells,
     [BaseCells EXCEPT !.faculty = <<"J", "o", "n", "e", "s">>],
     [BaseCells EXCEPT !.faculty = <<"C", "h", "r", "i", "s", "t", "o", "p", "h", "e", "r">>],
     [BaseCells EXCEPT !.faculty = <<"c", "f", "a", "c", "u", "l", "t", "y", "1">>],
     [BaseCells EXCEPT !.building = <<"Z", "Z">>],
     [BaseCells EXCEPT !.title = <<"A", "r", "t">>] >>

\* A spreadsheet row: the cells in column order, then one column (campus) that
\* the modelled mappings leave unmapped.
RawRow(cells) ==
  [i \in 1..Len(FieldOrder) |-> cells[FieldOrder[i]]] \o << <<"M", "A", "I", "N">> >>

HeaderRow == [i \in 1..Len(FieldOrder) |-> <<"h">>]

\* A stored sheet is named by the catalogue numbers of its rows, in order.
SheetIds == UNION {[1..n -> 1..Len(CellsCatalogue)] : n \in 0..MaxRows}

\* sheet.data of the parsed file: the header row, then the rows.
SheetData(sheet) ==
  <<HeaderRow>> \o [i \in 1..Len(sheet) |-> RawRow(CellsCatalogue[sheet[i]])]

\* The column mapping a client sends: every field mapped to its column.
FullMapping ==
  [k \in FieldNames |-> (CHOOSE i \in 1..Len(FieldOrder) : FieldOrder[i] = k) - 1]

Mappings == {"full"}

MappingOf(name) == CASE name = "full" -> FullMapping

\* formattedColumns for every mapping and sheet, computed once.
FormattedColumns ==
  [columns \in Mappings, sheet \in SheetIds |->
     invertedNestedOrganizedColumns(Refs, SheetData(sheet), MappingOf(columns))] @@ <<>>

----------------------------------------------------------------------------
(* Persistence: createCourseSchema and the statements of the transaction    *)

\* The arguments of prisma.course.create for one validated row.
createCourseSchema(row, tuid) ==
  [ revision |-> tuid,
    section_id |-> row.section_id.n,
    term |-> row.term,
    semester |-> row.semester,
    department |-> row.department,
    subject |-> row.subject,
    section |-> IF row.section.t = "num" THEN NumToStr(row.section.n)
                ELSE IF row.section.t = "str" THEN row.section.s
                ELSE TemplateText(Undefined),
    credits |-> row.credits,
    title |-> Substring0(row.title, 30),
    capacity |-> row.capacity,
    faculty |-> Array([i \in 1..Len(row.faculty) |-> row.faculty[i].faculty_tuid]),
    locations |-> Array([i \in 1..Len(row.locations) |->
                     [ rooms |-> Array([j \in 1..Len(row.locations[i].rooms) |->
                                    [ building |-> row.locations[i].rooms[j].building_tuid,
                                      room |-> row.locations[i].rooms[j].room ]]),
                       start_time |-> row.locations[i].start_time,
                       end_time |-> row.locations[i].end_time,
                       is_online |-> row.locations[i].is_online,
                       day_monday |-> row.locations[i].day_monday,
                       day_tuesday |-> row.locations[i].day_tuesday,
                       day_wednesday |-> row.locations[i].day_wednesday,
                       day_thursday |-> row.locations[i].day_thursday,
                       day_friday |-> row.locations[i].day_friday,
                       day_saturday |-> row.locations[i].day_saturday,
                       day_sunday |-> row.locations[i].day_sunday ]]) ]

\* row.title.substring throws when the title column is not mapped.
createCourseThrows(row) == row.title = Undefined

\* A stored course is kept as the request and row it was created from; its
\* columns and children are CourseRecord of that key.
CourseRecord(key) ==
  createCourseSchema(FormattedColumns[key.columns, key.sheet][key.row], key.tuid)

\* The statements handed to prisma.$transaction, in order.
TransactionStatements(job) ==
  << [op |-> "schedule.create", tuid |-> job.tuid],
     [op |-> "scheduleRevision.update", tuid |-> job.tuid, name |-> job.name] >>
  \o [i \in 1..Len(FormattedColumns[job.columns, job.sheet]) |->
        [op |-> "course.create",
         key |-> [tuid |-> job.tuid, columns |-> job.columns, sheet |-> job.sheet,
                  row |-> i]]]

HasRevision(store, tuid) == tuid \in DOMAIN store.revisions

\* A database without referential checks: every statement runs.
ConnectsUnchecked(store, st) == TRUE

\* Whether a statement can run against the store: every record it connects
\* (revision, faculty, building) or updates must exist.
StatementRuns(store, st) ==
  CASE st.op = "schedule.create" -> HasRevision(store, st.tuid)
    [] st.op = "scheduleRevision.update" -> HasRevision(store, st.tuid)
    [] st.op = "course.create" ->
         LET data == CourseRecord(st.key)
         IN  /\ HasRevision(store, data.revision)
             /\ \A i \in 1..Len(data.faculty) :
                  \E f \in FacultyRecords : f.tuid = data.faculty[i]
             /\ \A i \in 1..Len(data.locations) :
                  \A j \in 1..Len(data.locations[i].rooms) :
                    \E b \in BuildingRecords : b.tuid = data.locations[i].rooms[j].building

\* The store after one statement has run.
ApplyStatement(store, st) ==
  CASE st.op = "schedule.create" ->
         LET id == store.nextSchedule
         IN  [store EXCEPT !.schedules = @ \cup {id},
                           !.nextSchedule = @ + 1,
                           !.revisions[st.tuid].schedule = id]
    [] st.op = "scheduleRevision.update" ->
         [store EXCEPT !.revisions[st.tuid].name = st.name,
                       !.revisions[st.tuid].onboarding = FALSE]
    [] st.op = "course.create" ->
         [store EXCEPT !.courses = Append(@, st.key)]

\* The store after the statements have run in order up to the first that
\* fails (failAt: the statement the database fails on, 0 for none), and
\* whether they all ran.
RECURSIVE RunStatements(_, _, _)
RunStatements(store, sts, failAt) ==
  IF sts = <<>> THEN [store |-> store, ok |-> TRUE]
  ELSE IF failAt = 1 \/ ~StatementRuns(store, Head(sts)) THEN [store |-> store, ok |-> FALSE]
  ELSE RunStatements(ApplyStatement(store, Head(sts)), Tail(sts),
                     IF failAt = 0 THEN 0 ELSE failAt - 1)

\* The statements run one after another with no transaction around them: what
\* ran before a failure stays.
RunWithoutTransaction(store, sts, failAt) == RunStatements(store, sts, failAt)

\* prisma.$transaction([...]): all statements or none.
Transaction(store, sts, failAt) ==
  LET run == RunStatements(store, sts, failAt)
  IN  IF run.ok THEN run ELSE [store |-> store, ok |-> FALSE]

----------------------------------------------------------------------------
(* The store                                                                 *)

\* Revision identifiers a client sends: a revision with a sheet, a revision
\* whose file parses to no sheet, and an identifier no revision has.
Tuids == {"rev1", "rev2", "revX"}

NoResult == [success |-> FALSE, errors |-> {}, threw |-> FALSE]

IdleReq ==
  [ pc |-> "idle", kind |-> "verify",
    input |-> [tuid |-> "revX", name |-> "", columns |-> "full"],
    sheet |-> <<>>, idx |-> 0, result |-> NoResult, onboardingAtStart |-> FALSE,
    dbFailure |-> FALSE ]

NoVerify == [valid |-> FALSE, input |-> IdleReq.input, store |-> <<>>, result |-> NoResult]

PipeIdle ==
  /\ db = [revisions |-> <<>>, schedules |-> {}, nextSchedule |-> 1, courses |-> <<>>]
  /\ req = [r \in Reqs |-> IdleReq]
  /\ calls = 0
  /\ lastVerify = NoVerify

TimeIdle ==
  /\ timeIn = <<>>
  /\ timeOut = [done |-> TRUE, value |-> 0]
  /\ timeCase = [hour |-> 0, minute |-> 0, marker |-> ""]

CellIdle ==
  /\ cellCase = [days |-> <<>>, year |-> <<>>, slash |-> FALSE, code |-> <<>>, pad |-> <<>>,
                 credits |-> <<>>]
  /\ cellOut = [done |-> FALSE]

ResolveIdle ==
  /\ rowCase = [tokens |-> <<>>, times |-> 0, days |-> <<>>]
  /\ lookup = [pc |-> "idle"]

MapIdle ==
  /\ sheetIn = <<>>
  /\ sheetOut = [done |-> FALSE]

ConfIdle ==
  /\ cal = [guidelines |-> <<>>, courses |-> <<>>]
  /\ answer = [done |-> FALSE]

\* After uploadExcel: two onboarding revisions, one whose file holds a sheet and
\* one whose file holds none; no schedule and no course yet.
Init ==
  /\ \E sheet \in SheetIds :
       db = [ revisions |->
                [t \in {"rev1", "rev2"} |->
                   [ name |-> "", onboarding |-> TRUE, schedule |-> 0,
                     file |-> IF t = "rev1" THEN <<sheet>> ELSE <<>> ]],
              schedules |-> {}, nextSchedule |-> 1, courses |-> <<>> ]
  /\ req = [r \in Reqs |-> IdleReq]
  /\ calls = 0
  /\ lastVerify = NoVerify
  /\ TimeIdle
  /\ ConfIdle
  /\ CellIdle
  /\ MapIdle
  /\ ResolveIdle

----------------------------------------------------------------------------
(* verifyOrganizedColumns and createScheduleRevision, one action per await   *)

\* ctx.prisma.scheduleRevision.count({where: {tuid}})
RevisionCount(store, tuid) == IF HasRevision(store, tuid) THEN 1 ELSE 0

\* A fall-through that reports success.
FallThroughSucceeds == [success |-> TRUE, errors |-> {}, threw |-> FALSE]

\* The value both handlers return when they fall through their checks:
\* {success: verifyColumns} with verifyColumns still false, or {success: false}.
FallThroughResult == [success |-> FALSE, errors |-> {}, threw |-> FALSE]

ThrownResult == [success |-> FALSE, errors |-> {}, threw |-> TRUE]

SuccessResult == [success |-> TRUE, errors |-> {}, threw |-> FALSE]

\* A verification that goes on to the transaction as well.
AlwaysCommits(kind) == TRUE

\* Only createScheduleRevision goes on to the transaction once every row has
\* been validated; verifyOrganizedColumns returns {success: valid}.
CommitsAfterValidation(kind) == kind = "create"

\* formattedColumns of a request that has parsed its sheet.
RowsOf(q) == FormattedColumns[q.input.columns, q.sheet]

\* A loop that reports, with a failing row, the errors of the rows after it.
RowVerdictAggregate(rows, idx) ==
  LET errors == UNION {excelCourseSchema(rows[i]).errors : i \in idx..Len(rows)}
  IN  [success |-> excelCourseSchema(rows[idx]).success, errors |-> errors]

\* The verdict of the loop body on row idx: safeParseAsync of that row alone.
RowVerdict(rows, idx) == excelCourseSchema(rows[idx])

\* The request completes with `result`.
Complete(r, sheet, result) ==
  /\ req' = [req EXCEPT ![r].pc = "done", ![r].sheet = sheet, ![r].result = result]
  /\ lastVerify' = IF req[r].kind = "verify"
                   THEN [valid |-> TRUE, input |-> req[r].input, store |-> db,
                         result |-> result]
                   ELSE lastVerify

\* The request after its last row passed validation (or with no row at all).
Validated(r, sheet) ==
  IF CommitsAfterValidation(req[r].kind)
  THEN /\ req' = [req EXCEPT ![r].pc = "tx", ![r].sheet = sheet]
       /\ UNCHANGED lastVerify
  ELSE Complete(r, sheet, SuccessResult)

\* A client calls one of the two mutations.
Start(r) ==
  /\ req[r].pc = "idle"
  /\ calls < MaxCalls
  /\ \E kind \in {"verify", "create"}, tuid \in Tuids, columns \in Mappings :
       req' = [req EXCEPT ![r] =
                 [ pc |-> "count", kind |-> kind,
                   input |-> [tuid |-> tuid, name |-> "Fall", columns |-> columns],
                   sheet |-> <<>>, idx |-> 0, result |-> NoResult,
                   onboardingAtStart |-> HasRevision(db, tuid) /\ db.revisions[tuid].onboarding,
                   dbFailure |-> FALSE ]]
  /\ calls' = calls + 1
  /\ UNCHANGED <<db, lastVerify>>

\* await scheduleRevision.count(...); if (count >= 1) ... else fall through.
Count(r) ==
  /\ req[r].pc = "count"
  /\ IF RevisionCount(db, req[r].input.tuid) >= 1
     THEN req' = [req EXCEPT ![r].pc = "find"] /\ UNCHANGED lastVerify
     ELSE Complete(r, <<>>, FallThroughResult)
  /\ UNCHANGED <<db, calls>>

\* await scheduleRevision.findUnique(...); xlsx.parse(revision?.file); the
\* sheet check; await invertedNestedOrganizedColumns(columns, input.columns).
Find(r) ==
  /\ req[r].pc = "find"
  /\ IF ~HasRevision(db, req[r].input.tuid)
     THEN Complete(r, <<>>, ThrownResult)
     ELSE LET results == db.revisions[req[r].input.tuid].file
          IN  IF Len(results) = 0
              THEN Complete(r, <<>>, FallThroughResult)
              ELSE LET formattedColumns == FormattedColumns[req[r].input.columns, results[1]]
                   IN  IF \E i \in 1..Len(formattedColumns) : formattedColumns[i].threw
                       THEN Complete(r, results[1], ThrownResult)
                       ELSE IF Len(formattedColumns) = 0
                       THEN Validated(r, results[1])
                       ELSE /\ req' = [req EXCEPT ![r].pc = "validate",
                                                  ![r].sheet = results[1],
                                                  ![r].idx = 1]
                            /\ UNCHANGED lastVerify
  /\ UNCHANGED <<db, calls>>

\* A loop that stops after the first row that passes.
ValidateFirstRowOnly(r) ==
  /\ req[r].pc = "validate"
  /\ LET result == RowVerdict(RowsOf(req[r]), req[r].idx)
     IN  IF ~result.success
         THEN Complete(r, req[r].sheet,
                       [success |-> FALSE, errors |-> result.errors, threw |-> FALSE])
         ELSE Validated(r, req[r].sheet)
  /\ UNCHANGED <<db, calls>>

\* A pair of loops of which the verifying one stops after its first row.
ValidateVerifyFirstRowOnly(r) ==
  /\ req[r].pc = "validate"
  /\ LET result == RowVerdict(RowsOf(req[r]), req[r].idx)
     IN  IF ~result.success
         THEN Complete(r, req[r].sheet,
                       [success |-> FALSE, errors |-> result.errors, threw |-> FALSE])
         ELSE IF req[r].idx = Len(RowsOf(req[r])) \/ req[r].kind = "verify"
         THEN Validated(r, req[r].sheet)
         ELSE req' = [req EXCEPT ![r].idx = @ + 1] /\ UNCHANGED lastVerify
  /\ UNCHANGED <<db, calls>>

\* One turn of the validation loop: await excelCourseSchema.safeParseAsync(row);
\* the first failure returns {success: false, errors}.
ValidateRow(r) ==
  /\ req[r].pc = "validate"
  /\ LET result == RowVerdict(RowsOf(req[r]), req[r].idx)
     IN  IF ~result.success
         THEN Complete(r, req[r].sheet,
                       [success |-> FALSE, errors |-> result.errors, threw |-> FALSE])
         ELSE IF req[r].idx = Len(RowsOf(req[r]))
         THEN Validated(r, req[r].sheet)
         ELSE req' = [req EXCEPT ![r].idx = @ + 1] /\ UNCHANGED lastVerify
  /\ UNCHANGED <<db, calls>>

\* await prisma.$transaction([...]): the statements are built (createCourseSchema
\* may throw), then run as one transaction that the database may fail at any
\* statement.
Commit(r) ==
  /\ req[r].pc = "tx"
  /\ IF \E i \in 1..Len(RowsOf(req[r])) : createCourseThrows(RowsOf(req[r])[i])
     THEN /\ req' = [req EXCEPT ![r].pc = "done", ![r].result = ThrownResult]
          /\ UNCHANGED db
     ELSE LET sts == TransactionStatements(
                       [tuid |-> req[r].input.tuid, name |-> req[r].input.name,
                        columns |-> req[r].input.columns, sheet |-> req[r].sheet])
          IN  \E failAt \in 0..Len(sts) :
                LET run == Transaction(db, sts, failAt)
                IN  /\ db' = run.store
                    /\ req' = [req EXCEPT ![r].pc = "done",
                                          ![r].result = IF run.ok THEN SuccessResult
                                                        ELSE ThrownResult,
                                          ![r].dbFailure = failAt # 0]
  /\ UNCHANGED <<calls, lastVerify>>

\* The response has been delivered; the client may call again.
Finish(r) ==
  /\ req[r].pc = "done"
  /\ req' = [req EXCEPT ![r] = IdleReq]
  /\ UNCHANGED <<db, calls, lastVerify>>

Next ==
  \E r \in Reqs :
    \/ Start(r) /\ UNCHANGED <<timeVars, confVars, cellVars, mapVars, resolveVars>>
    \/ Count(r) /\ UNCHANGED <<timeVars, confVars, cellVars, mapVars, resolveVars>>
    \/ Find(r) /\ UNCHANGED <<timeVars, confVars, cellVars, mapVars, resolveVars>>
    \/ ValidateRow(r) /\ UNCHANGED <<timeVars, confVars, cellVars, mapVars, resolveVars>>
    \/ Commit(r) /\ UNCHANGED <<timeVars, confVars, cellVars, mapVars, resolveVars>>
    \/ Finish(r) /\ UNCHANGED <<timeVars, confVars, cellVars, mapVars, resolveVars>>

Spec == Init /\ [][Next]_vars

----------------------------------------------------------------------------
(* SpecDelete: the same handlers with deleteScheduleRevision beside them    *)

\* After uploadExcel of a one-row sheet: as Init, the sheet fixed.
DeleteInit ==
  /\ db = [ revisions |->
              [t \in {"rev1", "rev2"} |->
                 [ name |-> "", onboarding |-> TRUE, schedule |-> 0,
                   file |-> IF t = "rev1" THEN << <<1>> >> ELSE <<>> ]],
            schedules |-> {}, nextSchedule |-> 1, courses |-> <<>> ]
  /\ req = [r \in Reqs |-> IdleReq]
  /\ calls = 0
  /\ lastVerify = NoVerify
  /\ TimeIdle
  /\ ConfIdle
  /\ CellIdle
  /\ MapIdle
  /\ ResolveIdle

\* A client calls deleteScheduleRevision.
StartDelete(r) ==
  /\ req[r].pc = "idle"
  /\ calls < MaxCalls
  /\ \E tuid \in Tuids :
       req' = [req EXCEPT ![r] =
                 [ pc |-> "hasRevision", kind |-> "delete",
                   input |-> [tuid |-> tuid, name |-> "", columns |-> "full"],
                   sheet |-> <<>>, idx |-> 0, result |-> NoResult,
                   onboardingAtStart |-> HasRevision(db, tuid) /\ db.revisions[tuid].onboarding,
                   dbFailure |-> FALSE ]]
  /\ calls' = calls + 1
  /\ UNCHANGED <<db, lastVerify>>

\* await scheduleRevision.count({where: {creator_tuid, tuid}}); a count other
\* than 1 returns false.  Every revision is the caller's own.
HasRevisionCount(r) ==
  /\ req[r].pc = "hasRevision"
  /\ IF RevisionCount(db, req[r].input.tuid) = 1
     THEN req' = [req EXCEPT ![r].pc = "delete"]
     ELSE req' = [req EXCEPT ![r].pc = "done", ![r].result = NoResult]
  /\ UNCHANGED <<db, calls, lastVerify>>

\* The courses of the store that are not of revision tuid.
CoursesNotOf(store, tuid) == SelectSeq(store.courses, LAMBDA key : key.tuid # tuid)

\* await scheduleRevision.delete({where: {tuid}}); return true.  The delete
\* throws when the revision is gone; a revision with courses is deleted with
\* them or the delete is refused, as the relation's referential action has it.
\* The schedule of the revision is not touched.
DeleteRevision(r) ==
  /\ req[r].pc = "delete"
  /\ LET tuid == req[r].input.tuid
     IN  IF ~HasRevision(db, tuid)
         THEN /\ req' = [req EXCEPT ![r].pc = "done", ![r].result = ThrownResult]
              /\ UNCHANGED db
         ELSE \E cascade \in BOOLEAN :
                /\ cascade \/ CoursesNotOf(db, tuid) # db.courses
                /\ IF cascade
                   THEN /\ db' = [db EXCEPT
                                    !.revisions = [t \in DOMAIN @ \ {tuid} |-> @[t]],
                                    !.courses = CoursesNotOf(db, tuid)]
                        /\ req' = [req EXCEPT ![r].pc = "done", ![r].result = SuccessResult]
                   ELSE /\ req' = [req EXCEPT ![r].pc = "done", ![r].result = ThrownResult]
                        /\ UNCHANGED db
  /\ UNCHANGED <<calls, lastVerify>>

DeleteNext ==
  \E r \in Reqs :
    \/ Start(r) /\ UNCHANGED <<timeVars, confVars, cellVars, mapVars, resolveVars>>
    \/ Count(r) /\ UNCHANGED <<timeVars, confVars, cellVars, mapVars, resolveVars>>
    \/ Find(r) /\ UNCHANGED <<timeVars, confVars, cellVars, mapVars, resolveVars>>
    \/ ValidateRow(r) /\ UNCHANGED <<timeVars, confVars, cellVars, mapVars, resolveVars>>
    \/ Commit(r) /\ UNCHANGED <<timeVars, confVars, cellVars, mapVars, resolveVars>>
    \/ Finish(r) /\ UNCHANGED <<timeVars, confVars, cellVars, mapVars, resolveVars>>
    \/ StartDelete(r) /\ UNCHANGED <<timeVars, confVars, cellVars, mapVars, resolveVars>>
    \/ HasRevisionCount(r) /\ UNCHANGED <<timeVars, confVars, cellVars, mapVars, resolveVars>>
    \/ DeleteRevision(r) /\ UNCHANGED <<timeVars, confVars, cellVars, mapVars, resolveVars>>

SpecDelete == DeleteInit /\ [][DeleteNext]_vars

\* C19: after any sequence of createScheduleRevision and deleteScheduleRevision
\* operations every stored schedule owns at least one revision.
C19_EveryScheduleOwnsARevision ==
  \A schedule \in db.schedules :
    \E tuid \in DOMAIN db.revisions : db.revisions[tuid].schedule = schedule

----------------------------------------------------------------------------
(* Properties of verifyOrganizedColumns and createScheduleRevision (Spec)    *)

\* Request r ends in this step.
Ends(r) == req[r].pc # "done" /\ req'[r].pc = "done"

\* Request r, past its Start, takes this step.
Steps(r) == req[r].pc \notin {"idle", "done"} /\ req'[r] # req[r]

\* The formatted row a stored course was created from.
StoredRow(key) == FormattedColumns[key.columns, key.sheet][key.row]

\* The step persists everything the commit of request r writes: one new
\* Schedule linked to the revision, the revision named and out of onboarding,
\* and one Course with its children per row, after the courses already stored.
FullyCommitted(r) ==
  LET tuid == req[r].input.tuid
      rows == RowsOf(req[r])
      before == Len(db.courses)
  IN  /\ Cardinality(db'.schedules) = Cardinality(db.schedules) + 1
      /\ db'.revisions[tuid].schedule \in db'.schedules \ db.schedules
      /\ db'.revisions[tuid].name = req[r].input.name
      /\ db'.revisions[tuid].onboarding = FALSE
      /\ Len(db'.courses) = before + Len(rows)
      /\ SubSeq(db'.courses, 1, before) = db.courses
      /\ \A i \in 1..Len(rows) :
           CourseRecord(db'.courses[before + i]) = createCourseSchema(rows[i], tuid)

\* C1: createScheduleRevision is all-or-nothing.  Every step either leaves the
\* store as it was, or is the commit of a request that ends with success and
\* persists the new Schedule, the revision update and all N courses with their
\* children; a request that ends without success has written nothing.
C1_AllOrNothing ==
  [][ /\ db' = db \/ \E r \in Reqs : /\ req[r].pc = "tx"
                                     /\ Ends(r)
                                     /\ req'[r].result.success
                                     /\ FullyCommitted(r)
      /\ \A r \in Reqs : Ends(r) /\ ~req'[r].result.success => db' = db ]_vars

\* A commit of MaxRows valid, resolvable rows that the database failed has
\* ended, and no Schedule, no revision update and no Course exists.
C1_FailedCommitLeftNothing ==
  \E r \in Reqs :
    /\ req[r].pc = "done" /\ req[r].kind = "create"
    /\ Len(req[r].sheet) = MaxRows
    /\ \A i \in 1..Len(RowsOf(req[r])) : excelCourseSchema(RowsOf(req[r])[i]).success
    /\ req[r].result.threw /\ req[r].dbFailure
    /\ db.schedules = {} /\ db.courses = <<>>
    /\ db.revisions[req[r].input.tuid].onboarding
    /\ db.revisions[req[r].input.tuid].name = ""

\* C2: a createScheduleRevision for a revision that exists but was no longer
\* in onboarding when the request was made is a no-op that returns failure: it
\* writes nothing and does not end with success, so a revision never has a
\* second Schedule or a second course set.
C2_NotOnboardingIsNoOp ==
  [][ \A r \in Reqs :
        /\ Steps(r)
        /\ req[r].kind = "create"
        /\ HasRevision(db, req[r].input.tuid)
        /\ ~req[r].onboardingAtStart
        => /\ db' = db
           /\ (Ends(r) => ~req'[r].result.success) ]_vars

\* C3: of two createScheduleRevision requests made for the same onboarding
\* revision and run concurrently, exactly one commits: once both have ended
\* they have not both succeeded, one Schedule at most exists and no row has two
\* Courses.
C3_OneConcurrentCommitWins ==
  \A a \in Reqs : \A b \in Reqs \ {a} :
    /\ req[a].pc = "done" /\ req[b].pc = "done"
    /\ req[a].kind = "create" /\ req[b].kind = "create"
    /\ req[a].input.tuid = req[b].input.tuid
    /\ req[a].onboardingAtStart /\ req[b].onboardingAtStart
    /\ Len(db.revisions[req[a].input.tuid].file) = 1
    => /\ ~(req[a].result.success /\ req[b].result.success)
       /\ Cardinality(db.schedules) <= 1
       /\ Len(db.courses) <= Len(db.revisions[req[a].input.tuid].file[1])

\* The first row of `rows` that the schema rejects (0: none).
FirstFailing(rows) ==
  LET failing == {i \in 1..Len(rows) : ~excelCourseSchema(rows[i]).success}
  IN  IF failing = {} THEN 0 ELSE CHOOSE i \in failing : \A j \in failing : i <= j

\* C4: a createScheduleRevision whose batch has a row failing validation
\* writes nothing in any of its steps and ends with success false and the
\* errors of the first failing row alone.
C4_FirstFailingRowOnly ==
  [][ \A r \in Reqs :
        /\ Steps(r)
        /\ req[r].kind = "create"
        /\ req[r].pc \in {"validate", "tx"}
        /\ FirstFailing(RowsOf(req[r])) # 0
        => /\ db' = db
           /\ req'[r].pc # "tx"
           /\ Ends(r) =>
                req'[r].result =
                  [ success |-> FALSE, threw |-> FALSE,
                    errors |-> excelCourseSchema(
                                 RowsOf(req[r])[FirstFailing(RowsOf(req[r]))]).errors ] ]_vars

\* A commit has ended on the errors of its first row although its second row
\* fails on other fields, and nothing was written.
C4_LaterRowAlsoFails ==
  \E r \in Reqs :
    /\ req[r].pc = "done" /\ req[r].kind = "create"
    /\ Len(RowsOf(req[r])) = 2
    /\ ~excelCourseSchema(RowsOf(req[r])[1]).success
    /\ ~excelCourseSchema(RowsOf(req[r])[2]).success
    /\ excelCourseSchema(RowsOf(req[r])[1]).errors # excelCourseSchema(RowsOf(req[r])[2]).errors
    /\ req[r].result.errors = excelCourseSchema(RowsOf(req[r])[1]).errors
    /\ db.schedules = {} /\ db.courses = <<>>

\* C5: no step of a verifyOrganizedColumns call changes the store (the
\* reference buildings and faculty are constants of the model), and a call that
\* ends with the input and the store of the call that ended before it returns
\* the same result.
C5_VerifyOnlyReads ==
  [][ \A r \in Reqs :
        Steps(r) /\ req[r].kind = "verify"
        => /\ db' = db
           /\ ( /\ Ends(r)
                /\ lastVerify.valid
                /\ lastVerify.input = req[r].input
                /\ lastVerify.store = db
                => req'[r].result = lastVerify.result ) ]_vars

\* Two verifications of the same revision and mapping have ended one after
\* the other on an unchanged store, with rows to report on.
C5_VerifiedTwice ==
  \E a \in Reqs : \E b \in Reqs \ {a} :
    /\ req[a].pc = "done" /\ req[b].pc = "done"
    /\ req[a].kind = "verify" /\ req[b].kind = "verify"
    /\ req[a].input = req[b].input
    /\ req[a].result = req[b].result
    /\ req[a].result.errors # {}
    /\ lastVerify.valid /\ lastVerify.store = db /\ lastVerify.input = req[a].input

\* A formatted row holding a placeholder: a faculty or building reference that
\* is the identifier of no stored record.
Dangling(row) ==
  \/ \E i \in 1..Len(row.faculty) :
       \A f \in FacultyRecords : f.tuid # row.faculty[i].faculty_tuid
  \/ \E i \in 1..Len(row.locations) :
       \E j \in 1..Len(row.locations[i].rooms) :
         \A b \in BuildingRecords : b.tuid # row.locations[i].rooms[j].building_tuid

\* The cells of a spreadsheet row name a faculty or a building prefix that the
\* resolver's lookup does not find.
MissIn(columns, cells) ==
  LET data == ProjectRow(MappingOf(columns), RawRow(cells))
      names == updateFaculty(data)
      prefixes == LinesOf(data.building)
  IN  \/ \E i \in 1..Len(names) : FacultyTuid(FacultyRecords, names[i]) = Undefined
      \/ \E i \in 1..Len(prefixes) :
           prefixes[i] # ONL /\ BuildingTuid(BuildingRecords, prefixes[i]) = Undefined

\* MissIn for every mapping and catalogue row.
Misses ==
  [columns \in Mappings, n \in 1..Len(CellsCatalogue) |->
     MissIn(columns, CellsCatalogue[n])] @@ <<>>

\* A row that is valid but for its faculty and building references.
OtherwiseValid(row) == courseSchemaErrors(row) \subseteq {"faculty", "locations"}

C7_MissingRevisionOrSheetFails ==
  [][ \A r \in Reqs :
        /\ Steps(r)
        /\ \/ ~HasRevision(db, req[r].input.tuid)
           \/ Len(db.revisions[req[r].input.tuid].file) = 0
        => /\ db' = db
           /\ req'[r].pc # "tx"
           /\ (Ends(r) => ~req'[r].result.success /\ ~req'[r].result.threw) ]_vars

\* Both mutations have ended with success false, one for an identifier no
\* revision has and one for the revision without a sheet; nothing is stored.
C7_BothKindsFellThrough ==
  \E a \in Reqs : \E b \in Reqs \ {a} :
    /\ req[a].pc = "done" /\ req[b].pc = "done"
    /\ req[a].kind = "verify" /\ req[b].kind = "create"
    /\ {req[a].input.tuid, req[b].input.tuid} = {"revX", "rev2"}
    /\ ~req[a].result.success /\ ~req[b].result.success
    /\ db.schedules = {} /\ db.courses = <<>>

----------------------------------------------------------------------------
(* SpecTime: convertTimeToMilitary over the clock texts "H:MM", "H:MM AM",  *)
(* "H:MM PM" and "H:MM pm"                                                  *)

Markers == {"", "AM", "PM", "pm"}

MarkerText(m) ==
  CASE m = ""   -> <<>>
    [] m = "AM" -> <<" ", "A", "M">>
    [] m = "PM" -> <<" ", "P", "M">>
    [] m = "pm" -> <<" ", "p", "m">>

\* The clock text of hour h, minute m (two digits) and marker mk.
ClockText(h, m, mk) ==
  NatToStr(h) \o <<":">> \o <<DigitChar(m \div 10), DigitChar(m % 10)>> \o MarkerText(mk)

TimeInit ==
  \E h \in 1..12, m \in 0..59, mk \in Markers :
    /\ timeCase = [hour |-> h, minute |-> m, marker |-> mk]
    /\ timeIn = ClockText(h, m, mk)
    /\ timeOut = [done |-> FALSE, value |-> 0]
    /\ PipeIdle
    /\ ConfIdle
    /\ CellIdle
    /\ MapIdle
    /\ ResolveIdle

\* The resolver's call: convertTimeToMilitary(updatedStart_time[index]?.trim()).
ConvertTime ==
  /\ ~timeOut.done
  /\ timeOut' = [done |-> TRUE, value |-> convertTimeToMilitary(Trim(timeIn))]
  /\ UNCHANGED <<timeIn, timeCase>>
  /\ UNCHANGED <<pipeVars, confVars, cellVars, mapVars, resolveVars>>

TimeNext == ConvertTime

SpecTime == TimeInit /\ [][TimeNext]_vars

\* Every row of the request's sheet passes the schema.
AllRowsValid(q) ==
  \A i \in 1..Len(RowsOf(q)) : excelCourseSchema(RowsOf(q)[i]).success

\* C20: within one createScheduleRevision request the steps keep their order:
\* every row is resolved before the first is validated, rows are validated one
\* at a time in sheet order, the commit transaction starts only after every row
\* has passed validation, and nothing is written to the store before then.
C20_StepOrder ==
  [][ /\ \A r \in Reqs :
           req'[r].kind = "create" /\ req'[r] # req[r] =>
             /\ req'[r].pc = "validate" /\ req[r].pc # "validate"
                  => /\ req[r].pc = "find"
                     /\ req'[r].idx = 1
                     /\ req'[r].sheet = db.revisions[req[r].input.tuid].file[1]
             /\ req'[r].pc = "validate" /\ req[r].pc = "validate"
                  => /\ req'[r].idx = req[r].idx + 1
                     /\ excelCourseSchema(RowsOf(req[r])[req[r].idx]).success
             /\ req'[r].pc = "tx"
                  => /\ AllRowsValid(req'[r])
                     /\ \/ req[r].pc = "validate" /\ req[r].idx = Len(RowsOf(req[r]))
                        \/ req[r].pc = "find" /\ Len(RowsOf(req'[r])) = 0
      /\ db' # db
           => \E r \in Reqs :
                /\ req[r].kind = "create"
                /\ req[r].pc = "tx"
                /\ req'[r].pc = "done"
                /\ AllRowsValid(req[r]) ]_vars

C20_CommitAfterTwoRows ==
  \E r \in Reqs :
    /\ req[r].kind = "create"
    /\ req[r].pc = "done"
    /\ req[r].result.success
    /\ Len(RowsOf(req[r])) = 2
    /\ req[r].idx = 2
    /\ Len(db.courses) >= 2

\* Request v is a finished verifyOrganizedColumns call of the same revision and
\* column mapping as request r, and the store is as that call left it.
VerifiedAlike(v, r) ==
  /\ req[v].kind = "verify" /\ req[v].pc = "done"
  /\ req[v].input = req[r].input
  /\ lastVerify.valid /\ lastVerify.input = req[v].input
  /\ lastVerify.result = req[v].result
  /\ lastVerify.store = db

----------------------------------------------------------------------------
(* SpecText: convertTimeToMilitary over arbitrary short cell texts          *)

\* Bound of the model: the length of a cell text.
MaxTextLen == 3

TextAlphabet == {"9", "3", "a", ":"}

\* The texts of a time cell: every text over the alphabet up to the bound, and
\* the absent cell.
CellTexts ==
  UNION {[1..n -> TextAlphabet] : n \in 0..MaxTextLen} \cup {Undefined}

TextInit ==
  /\ timeIn \in CellTexts
  /\ timeCase = [hour |-> 0, minute |-> 0, marker |-> "text"]
  /\ timeOut = [done |-> FALSE, value |-> 0]
  /\ PipeIdle
  /\ ConfIdle
  /\ CellIdle
  /\ MapIdle
  /\ ResolveIdle

SpecText == TextInit /\ [][TimeNext]_vars

\* A text that is all digits.
IsNumeral(text) == text # <<>> /\ \A i \in 1..Len(text) : IsDigit(text[i])

\* A malformed time text: absent, or not two colon-separated numerals.
Malformed(text) ==
  \/ text = Undefined
  \/ Len(Split(text, ":")) # 2
  \/ ~IsNumeral(Split(text, ":")[1])
  \/ ~IsNumeral(Split(text, ":")[2])

\* C11: convertTimeToMilitary returns exactly 0 for every malformed time text:
\* an absent value, the empty text, a text without exactly one colon, a text
\* whose hour or minute token is not a numeral.
C11_MalformedGivesZero ==
  timeOut.done /\ Malformed(timeIn) => timeOut.value = 0

----------------------------------------------------------------------------
(* SpecCodec: militaryToSplit followed by the stored-integer encoder        *)

\* String.prototype.substring(start): a negative start counts as 0.
SubstringFrom(s, start) == SubSeq(s, (IF start < 0 THEN 0 ELSE start) + 1, Len(s))

militaryToSplit(time) ==
  LET text == NumToStr(time)
      hour == ParseInt(IF time >= 1000 THEN Substring0(text, 2) ELSE Substring0(text, 1))
      minute == ParseInt(SubstringFrom(text, Len(text) - 2))
  IN  [ hour |-> hour,
        minute |-> minute,
        anteMeridiemHour |-> IF hour % 12 = 0 THEN 12 ELSE hour % 12,
        anteMeridiem |-> IF time >= 1300 THEN "PM" ELSE "AM" ]

\* The integer addCourseGuideline and updateCourseGuideline store for a time.
StoredTime(time) == ParseInt(MergeTime(time.hour, time.minute))

CodecInit ==
  \E h \in 0..23, m \in 0..59 :
    /\ timeCase = [hour |-> h, minute |-> m, marker |-> "canonical"]
    /\ timeIn = NumToStr(h * 100 + m)
    /\ timeOut = [done |-> FALSE, value |-> 0]
    /\ PipeIdle
    /\ ConfIdle
    /\ CellIdle
    /\ MapIdle
    /\ ResolveIdle

\* The canonical value is decoded and the decoded hour and minute stored again.
Reencode ==
  /\ ~timeOut.done
  /\ LET split == militaryToSplit(timeCase.hour * 100 + timeCase.minute)
     IN  timeOut' = [done |-> TRUE, value |-> StoredTime(split), split |-> split]
  /\ UNCHANGED <<timeIn, timeCase>>
  /\ UNCHANGED <<pipeVars, confVars, cellVars, mapVars, resolveVars>>

CodecNext == Reencode

SpecCodec == CodecInit /\ [][CodecNext]_vars

\* C12: for every canonical value c = hour*100 + minute (hour 0..23, minute
\* 0..59), decoding c with militaryToSplit and encoding the decoded hour and
\* minute with the stored-integer encoder gives c again.
C12_RoundTrip ==
  timeOut.done /\ timeCase.marker = "canonical"
    => timeOut.value = timeCase.hour * 100 + timeCase.minute

\* C25: militaryToSplit decodes every canonical value c = h*100 + m (h in
\* 0..23, m in 0..59) to hour h and minute m, with anteMeridiemHour = h mod 12
\* (0 shown as 12) and the label PM iff c >= 1300.
C25_DecodesHourAndMinute ==
  timeOut.done /\ timeCase.marker = "canonical"
    => LET c == timeCase.hour * 100 + timeCase.minute
       IN  /\ timeOut.split.hour = timeCase.hour
           /\ timeOut.split.minute = timeCase.minute
           /\ timeOut.split.anteMeridiemHour
                = (IF timeCase.hour % 12 = 0 THEN 12 ELSE timeCase.hour % 12)
           /\ timeOut.split.anteMeridiem = (IF c >= 1300 THEN "PM" ELSE "AM")

----------------------------------------------------------------------------
(* SpecCells: the days cell and the term cell of one row, decoded           *)

\* Days cells: letter codes on one line, letter codes one per line, an empty
\* cell.
DayCells ==
  { <<"M", "W", "F">>, <<"T", "H">>, <<"S", "A", "T">>, <<"S", "U", "N">>,
    <<"M">>, <<"T">>, <<"W">>, <<"R">>, <<"F">>, <<"T", "R">>, <<"M", "W">>,
    <<"m">>, <<"M", "\n", "W", "\n", "F">>, <<>> }

\* Second segments of a term cell: the four semester codes, an unknown code, a
\* lower-case code, nothing.
TermCodes ==
  { <<"S", "U">>, <<"F", "A">>, <<"W", "I">>, <<"S", "P">>, <<"X", "X">>,
    <<"f", "a">>, <<>> }

\* The term cell a year, a slash and a (padded) second segment make.
TermText(c) ==
  c.year \o (IF c.slash THEN <<"/">> \o c.pad \o c.code \o c.pad ELSE <<>>)

\* First segments of a term cell: two-digit years, nothing, no numeral.
TermYears == { <<"2", "3">>, <<"2", "6">>, <<>>, <<"a", "b">> }

\* Credits cells: a numeral, no numeral, a negative numeral.
CreditsCells == { <<"3">>, <<"x">>, <<"-", "1">> }

\* The projected row of the well-formed section with these days, this term and
\* these credits.
CellRow(c) ==
  ProjectRow(FullMapping,
             RawRow([BaseCells EXCEPT !.days = c.days, !.term = TermText(c),
                                      !.credits = c.credits]))

CellsInit ==
  /\ \E d \in DayCells, code \in TermCodes, slash \in BOOLEAN, pad \in {<<>>, <<" ">>},
        year \in TermYears, credits \in CreditsCells :
       /\ slash \/ (code = <<>> /\ pad = <<>>)
       /\ cellCase = [days |-> d, year |-> year, slash |-> slash,
                      code |-> code, pad |-> pad, credits |-> credits]
  /\ cellOut = [done |-> FALSE]
  /\ PipeIdle
  /\ TimeIdle
  /\ ConfIdle
  /\ MapIdle
  /\ ResolveIdle

\* The row is resolved, then parsed with courseSchema.
DecodeRow ==
  /\ ~cellOut.done
  /\ LET out == mergedCourseOutput(Refs, CellRow(cellCase))
         errors == courseSchemaErrors(out)
     IN  cellOut' = [ done |-> TRUE, out |-> out,
                      verdict |-> IF out.threw THEN NoResult
                                  ELSE [ threw |-> FALSE, success |-> errors = {},
                                         errors |-> errors ] ]
  /\ UNCHANGED cellCase
  /\ UNCHANGED <<pipeVars, timeVars, confVars, mapVars, resolveVars>>

CellsNext == DecodeRow

SpecCells == CellsInit /\ [][CellsNext]_vars

DayFlagNames ==
  {"day_monday", "day_tuesday", "day_wednesday", "day_thursday", "day_friday",
   "day_saturday", "day_sunday"}

\* The day flags that are true in a location.
DaysOn(loc) == {f \in DayFlagNames : loc[f]}

\* A row was decoded without an exception and has its one location.
Decoded == cellOut.done /\ ~cellOut.out.threw /\ Len(cellOut.out.locations) = 1

\* The flags the substring rule gives a days text.
SubstringDays(text) ==
  LET t == ToLowerCase(text)
  IN  {f \in DayFlagNames :
         \/ f = "day_monday" /\ Includes(t, <<"m">>)
         \/ f = "day_tuesday" /\ Includes(t, <<"t">>)
         \/ f = "day_wednesday" /\ Includes(t, <<"w">>)
         \/ f = "day_thursday" /\ (Includes(t, <<"r">>) \/ Includes(t, <<"t", "h">>))
         \/ f = "day_friday" /\ Includes(t, <<"f">>)
         \/ f = "day_saturday" /\ Includes(t, <<"s", "a", "t">>)
         \/ f = "day_sunday" /\ Includes(t, <<"s", "u", "n">>)}

\* C13: each of the seven day flags is set by substring containment in the
\* case-folded days text, so "MWF" gives monday, wednesday and friday and
\* "TH" gives both tuesday and thursday.
C13_DaysBySubstring ==
  Decoded => DaysOn(cellOut.out.locations[1]) = SubstringDays(cellCase.days)

\* C14: a days cell "SAT" decodes to saturday true and every other day flag
\* false; tuesday is false although the text contains the letter "t".
C14_SatIsSaturdayOnly ==
  Decoded /\ cellCase.days = <<"S", "A", "T">>
    => DaysOn(cellOut.out.locations[1]) = {"day_saturday"}

C14_SatDecoded ==
  /\ Decoded
  /\ cellCase.days = <<"S", "A", "T">>
  /\ cellOut.out.locations[1].day_saturday
  /\ ~cellOut.out.locations[1].day_tuesday

SemesterFlagNames ==
  {"semester_summer", "semester_fall", "semester_winter", "semester_spring"}

\* The semester flags that are true in a decoded row.
SemestersOn(out) == {f \in SemesterFlagNames : out.semester[f]}

\* The flag a term cell's parts call for: the one of its code, none for an
\* unknown code or a missing second segment.
SemestersCalledFor(c) ==
  {f \in SemesterFlagNames :
     /\ c.slash
     /\ \/ f = "semester_summer" /\ c.code = <<"S", "U">>
        \/ f = "semester_fall" /\ c.code = <<"F", "A">>
        \/ f = "semester_winter" /\ c.code = <<"W", "I">>
        \/ f = "semester_spring" /\ c.code = <<"S", "P">>}

\* C15: term decoding sets exactly the semester flag whose code equals the
\* trimmed second slash-segment and leaves the other three false; an unknown
\* second segment or a term with no second segment gives all four flags false,
\* as a value and without an exception.
C15_TermDecoding ==
  cellOut.done
    => /\ ~cellOut.out.threw
       /\ SemestersOn(cellOut.out) = SemestersCalledFor(cellCase)
       /\ Cardinality(SemestersOn(cellOut.out)) <= 1

C15_UnknownCodeDecoded ==
  /\ cellOut.done
  /\ cellCase.slash
  /\ cellCase.code = <<"X", "X">>
  /\ ~cellOut.out.threw
  /\ SemestersOn(cellOut.out) = {}

\* C26: the term year is the integer parsed from the first slash-segment of
\* the term text, the current calendar year whenever that segment cannot be
\* parsed as an integer (empty, or no numeral such as "ab/FA"), and never a
\* not-a-number value.
C26_TermYearIsANumber ==
  cellOut.done /\ ~cellOut.out.threw
    => /\ cellOut.out.term # NaN
       /\ cellOut.out.term = (IF IsNumeral(cellCase.year)
                              THEN DigitsValue(cellCase.year, 0)
                              ELSE CurrentYear)

\* C28: the row validator rejects a row whose credits lie outside a bounded
\* range: credits 0 from a credits cell that is no numeral, or a negative
\* value.
C28_CreditsInRange ==
  cellOut.done /\ cellOut.verdict.success => cellOut.out.credits >= 1

----------------------------------------------------------------------------
(* SpecMapper: invertedOrganizedColumns over sheets with blank cells        *)

\* A mapping of two fields: column 0 is the term, column 1 the days; a third
\* column of the sheet is mapped to no field.
PartialMapping == [term |-> 0, days |-> 1]

\* A cell of the parsed sheet: a text, or undefined for a blank cell.
MapperCells == {Undefined, <<"a">>}

\* The rows of a sheet: up to three cells, so also the row with no cell.
MapperRows == UNION {[1..n -> MapperCells] : n \in 0..3}

\* const {_, ...data} = c
StripUnmapped(c) == [k \in FieldNames |-> c[k]]

MapperInit ==
  /\ \E n \in 0..MaxRows : \E rows \in [1..n -> MapperRows] :
       sheetIn = << <<"h">> >> \o rows
  /\ sheetOut = [done |-> FALSE]
  /\ PipeIdle
  /\ TimeIdle
  /\ ConfIdle
  /\ CellIdle
  /\ ResolveIdle

ProjectSheet ==
  /\ ~sheetOut.done
  /\ LET rows == invertedOrganizedColumns(sheetIn, PartialMapping)
     IN  sheetOut' = [ done |-> TRUE,
                       rows |-> rows,
                       data |-> Array([i \in 1..Len(rows) |-> StripUnmapped(rows[i])]) ]
  /\ UNCHANGED sheetIn
  /\ UNCHANGED <<pipeVars, timeVars, confVars, cellVars, resolveVars>>

MapperNext == ProjectSheet

SpecMapper == MapperInit /\ [][MapperNext]_vars

\* The row has a value in a column that some field is mapped to.
HasMappedValue(organizedColumns, row) ==
  \E i \in 1..Len(row) :
    /\ getIndexFromOrganizedColumns(organizedColumns, i - 1) # "_"
    /\ row[i] # Undefined

\* The rows after the header that have a mapped value, in sheet order.
RowsWithMappedValue ==
  SelectSeq(Tail(sheetIn), LAMBDA row : HasMappedValue(PartialMapping, row))

\* C16: the column mapper drops every row after the header that has no value in
\* any mapped column (rows whose only cells lie in unmapped columns too), keeps
\* every row with at least one mapped value, and no value of an unmapped column
\* appears in a projected row.
C16_RowsWithoutMappedValueDropped ==
  sheetOut.done
    => /\ Len(sheetOut.data) = Len(RowsWithMappedValue)
       /\ \A i \in 1..Len(sheetOut.data) :
            /\ i <= Len(RowsWithMappedValue)
                 => sheetOut.data[i]
                      = StripUnmapped(ProjectRow(PartialMapping, RowsWithMappedValue[i]))
            /\ "_" \notin DOMAIN sheetOut.data[i]

\* C27: the column mapper coerces every cell of a mapped column to text so
\* that an absent cell becomes the empty text, never a placeholder word such
\* as "undefined".
C27_AbsentCellIsEmptyText ==
  sheetOut.done /\ Len(sheetOut.data) = Len(sheetIn) - 1
    => \A i \in 1..Len(sheetOut.data) :
         \A j \in 1..Len(sheetIn[i + 1]) :
           LET field == getIndexFromOrganizedColumns(PartialMapping, j - 1)
           IN  field # "_" /\ sheetIn[i + 1][j] = Undefined
                 => sheetOut.data[i][field] = <<>>

----------------------------------------------------------------------------
(* SpecResolve: locations() of one row. Every building line starts a lookup  *)
(* (prisma.guidelineBuilding.findFirst), the lookups return in any order,   *)
(* and Promise.all hands back the Locations once all of them have returned. *)

\* Bound of the model: lines in the building cell of the row.
MaxLines == 2

BuildingTokens == { <<"S", "E">>, <<"Z", "Z">>, ONL, <<"o", "n", "l">> }

\* The day text written on line i of the days cell.
DayLine(i) == IF i % 2 = 1 THEN <<"M">> ELSE <<"W">>

\* The start-time, end-time and room text written on line i of their cells.
StartLine(i) == NatToStr(8 + i) \o <<":", "0", "0">>
EndLine(i) == NatToStr(9 + i) \o <<":", "1", "5">>
RoomLine(i) == NatToStr(100 + i)

\* A cell of several lines, as the spreadsheet holds it.
RECURSIVE JoinLines(_)
JoinLines(lines) ==
  IF lines = <<>> THEN <<>>
  ELSE IF Len(lines) = 1 THEN lines[1]
  ELSE lines[1] \o <<"\n">> \o JoinLines(Tail(lines))

\* The row after the column mapper, with the multi-line cells of the case.
ResolveRow(c) ==
  LET n == Len(c.tokens)
  IN  ProjectRow(FullMapping,
        RawRow([BaseCells EXCEPT
                  !.building = JoinLines(c.tokens),
                  !.room = JoinLines([i \in 1..n |-> RoomLine(i)]),
                  !.start_time = JoinLines([i \in 1..c.times |-> StartLine(i)]),
                  !.end_time = JoinLines([i \in 1..c.times |-> EndLine(i)]),
                  !.days = JoinLines(c.days)]))

ResolveInit ==
  /\ \E n \in 1..MaxLines :
       \E tokens \in [1..n -> BuildingTokens], times \in {n - 1, n} :
         \E d \in {1, n} :
           rowCase = [tokens |-> tokens, times |-> times,
                      days |-> [i \in 1..d |-> DayLine(i)]]
  /\ lookup = [pc |-> "idle"]
  /\ PipeIdle
  /\ TimeIdle
  /\ ConfIdle
  /\ CellIdle
  /\ MapIdle

\* updatedBuilding.map(async ...): every callback runs up to its await.
StartLookups ==
  /\ lookup.pc = "idle"
  /\ lookup' = [ pc |-> "running",
                 pending |-> 1..Len(LinesOf(ResolveRow(rowCase).building)),
                 order |-> <<>>,
                 slots |-> <<>> ]
  /\ UNCHANGED rowCase
  /\ UNCHANGED <<pipeVars, timeVars, confVars, cellVars, mapVars>>

\* One findFirst returns and its callback builds the Location of its index.
LookupReturns(i) ==
  /\ lookup.pc = "running"
  /\ i \in lookup.pending
  /\ LET data == ResolveRow(rowCase)
         item == LinesOf(data.building)[i]
     IN  lookup' = [ lookup EXCEPT
                       !.pending = @ \ {i},
                       !.order = Append(@, i),
                       !.slots = (i :> LocationAt(Refs.buildings, data, item, i - 1)) @@ @ ]
  /\ UNCHANGED rowCase
  /\ UNCHANGED <<pipeVars, timeVars, confVars, cellVars, mapVars>>

\* A variant that collects the values in the order the promises settled.
InCompletionOrder(slots, order) == Array([k \in 1..Len(order) |-> slots[order[k]]])

\* Promise.all: the value of promise i at position i, whenever it settled.
PromiseAll(slots, order) == Array([i \in 1..Len(order) |-> slots[i]])

\* await Promise.all(...) resumes once every lookup has returned.
AllReturned ==
  /\ lookup.pc = "running"
  /\ lookup.pending = {}
  /\ lookup' = [ pc |-> "done", order |-> lookup.order,
                 value |-> PromiseAll(lookup.slots, lookup.order) ]
  /\ UNCHANGED rowCase
  /\ UNCHANGED <<pipeVars, timeVars, confVars, cellVars, mapVars>>

ResolveNext ==
  \/ StartLookups
  \/ \E i \in 1..MaxLines : LookupReturns(i)
  \/ AllReturned

SpecResolve == ResolveInit /\ [][ResolveNext]_vars

\* The time a position carries: that of its own line, 0 where the line is missing.
TimeOfLine(i, hour, minute) == IF i <= rowCase.times THEN hour * 100 + minute ELSE 0

\* C21: for every completion order of the lookups of one row, the row yields
\* exactly one Location per line of the building cell, and Location i is
\* built from building token i, start-time line i, end-time line i and room
\* line i; a missing start or end line at index i gives time 0.
C21_ReassembledByPosition ==
  lookup.pc = "done"
    => /\ Len(lookup.value) = Len(rowCase.tokens)
       /\ \A i \in 1..Len(rowCase.tokens) :
            LET loc == lookup.value[i]
            IN  /\ loc.building = rowCase.tokens[i]
                /\ loc.start_time = TimeOfLine(i, 8 + i, 0)
                /\ loc.end_time = TimeOfLine(i, 9 + i, 15)
                /\ \A r \in 1..Len(loc.rooms) : loc.rooms[r].room = RoomLine(i)

\* C21 witness: the lookups of a two-line row returned last line first, and
\* the second position has no time line of its own.
C21_ReturnedOutOfOrder ==
  /\ lookup.pc = "done"
  /\ lookup.order = <<2, 1>>
  /\ rowCase.times = 1
  /\ rowCase.tokens[1] # rowCase.tokens[2]
  /\ Len(lookup.value) = 2

\* The building reference the room of a token is to carry.
BuildingReference(token) ==
  IF \E b \in BuildingRecords : b.prefix = token
  THEN (CHOOSE b \in BuildingRecords : b.prefix = token).tuid
  ELSE token

\* C22: for every building token, the Location has is_online = true iff the
\* token is exactly "ONL"; an "ONL" Location has an empty room list, and every
\* other Location has exactly one room whose building reference is the
\* matched building's identifier if a building with that exact prefix exists
\* and the raw token otherwise.
C22_OnlineAndRoomRule ==
  lookup.pc = "done"
    => \A i \in 1..Len(lookup.value) :
         LET loc == lookup.value[i]
             token == rowCase.tokens[i]
         IN  /\ loc.is_online <=> token = ONL
             /\ token = ONL => loc.rooms = <<>>
             /\ token # ONL
                  => /\ Len(loc.rooms) = 1
                     /\ loc.rooms[1].building_tuid = BuildingReference(token)

\* C22 witness: a resolved row with an "ONL" line and a line whose token
\* matches no building.
C22_OnlineAndUnmatched ==
  /\ lookup.pc = "done"
  /\ Len(lookup.value) = 2
  /\ \E i, j \in 1..2 :
       /\ rowCase.tokens[i] = ONL
       /\ rowCase.tokens[j] # ONL
       /\ \A b \in BuildingRecords : b.prefix # rowCase.tokens[j]

\* The day flags line i of the days cell stands for.
DaysOfLine(i) ==
  IF i > Len(rowCase.days) THEN {}
  ELSE IF rowCase.days[i] = <<"M">> THEN {"day_monday"}
  ELSE {"day_wednesday"}

\* C29: for a row with several building lines and several day lines, Location
\* i carries the day pattern decoded from day line i only; day lines of other
\* positions do not set flags on Location i.
C29_DaysByPosition ==
  lookup.pc = "done" /\ Len(rowCase.days) = Len(rowCase.tokens)
    => \A i \in 1..Len(lookup.value) : DaysOn(lookup.value[i]) = DaysOfLine(i)

----------------------------------------------------------------------------
(* SpecConf: addCourseGuideline, addNewRevisonCourse and getRevision with    *)
(* its ConformanceMatcher (queryCoursesByDay, coursesWithinAGuideline)       *)

\* Bounds of the model: guidelines stored, courses added to the revision.
MaxGuidelines == 2
MaxCourses == 1

DaySet == {"day_monday", "day_tuesday", "day_wednesday", "day_thursday",
           "day_friday", "day_saturday", "day_sunday"}

SemesterNames == {"semester_fall", "semester_winter", "semester_spring", "semester_summer"}

\* The seven day flags, true for the days in S.
DayFlags(S) ==
  [ day_monday |-> "day_monday" \in S, day_tuesday |-> "day_tuesday" \in S,
    day_wednesday |-> "day_wednesday" \in S, day_thursday |-> "day_thursday" \in S,
    day_friday |-> "day_friday" \in S, day_saturday |-> "day_saturday" \in S,
    day_sunday |-> "day_sunday" \in S ]

\* The four semester flags, true for the one with code `code`.
SemesterFlags(code) ==
  [ semester_fall |-> code = "FA", semester_winter |-> code = "WI",
    semester_spring |-> code = "SP", semester_summer |-> code = "SU" ]

\* getSemester(input)
getSemester(input) ==
  IF input.semester_fall THEN "FA"
  ELSE IF input.semester_winter THEN "WI"
  ELSE IF input.semester_spring THEN "SP"
  ELSE IF input.semester_summer THEN "SU"
  ELSE ""

\* The record addCourseGuideline creates from its input.
GuidelineRecord(input) ==
  [ semester_summer |-> input.semester_summer,
    semester_fall |-> input.semester_fall,
    semester_winter |-> input.semester_winter,
    semester_spring |-> input.semester_spring,
    credits |-> input.credits,
    meeting_amount |-> input.meeting_amount,
    times |-> Array([i \in 1..Len(input.times) |->
                [ start_time |-> ParseInt(MergeTime(input.times[i].start_time.hour,
                                                    input.times[i].start_time.minute)),
                  end_time |-> ParseInt(MergeTime(input.times[i].end_time.hour,
                                                  input.times[i].end_time.minute)) ]]),
    days |-> input.days ]

\* parseCourseData(input): courseSchema.safeParse(input).success
parseCourseData(input) == LET isSafe == excelCourseSchema(input) IN isSafe.success

\* queryCoursesByDay(input, day): the courses of the revision that pass the
\* filters, each with only its locations on that day.  The faculty,
\* departments and buildings filters are absent from the modelled inputs.
queryCoursesByDay(courses, input, day) ==
  LET Passes(course) ==
        /\ input.credits # 0 => course.credits = input.credits
        /\ \E i \in 1..Len(course.locations) : course.locations[i][day] = TRUE
        /\ \A f \in SemesterNames : course.semester[f] = input[f]
      OnDay(location) == location[day] = TRUE
      found == SelectSeq(courses, Passes)
  IN  Array([i \in 1..Len(found) |->
               [found[i] EXCEPT !.locations = SelectSeq(@, OnDay)]])

\* How many of its seven days a location is flagged for.
LocationMeetings(location) == Cardinality({d \in DaySet : location[d] = TRUE})

RECURSIVE totalMeetings(_)
totalMeetings(locs) ==
  IF locs = <<>> THEN 0 ELSE LocationMeetings(Head(locs)) + totalMeetings(Tail(locs))

\* hasMonday .. hasSunday: some location of the course is flagged for day d.
hasDay(course, d) == \E i \in 1..Len(course.locations) : course.locations[i][d] = TRUE

\* A where-clause that filters on nothing.
SemesterUnfiltered(guideline, semester) == TRUE

\* OR: [hasFall ? {semester_fall: true} : {}, ...]: an empty object is no
\* filter, and an OR left with no filter matches no record.
SemesterFilter(guideline, semester) ==
  \/ semester = "FA" /\ guideline.semester_fall = TRUE
  \/ semester = "WI" /\ guideline.semester_winter = TRUE
  \/ semester = "SP" /\ guideline.semester_spring = TRUE
  \/ semester = "SU" /\ guideline.semester_summer = TRUE

\* The rest of the where-clause: credits, meeting_amount, days every, times every.
OtherFilters(guideline, course) ==
  /\ guideline.credits = course.credits
  /\ guideline.meeting_amount = totalMeetings(course.locations)
  /\ \A i \in 1..Len(guideline.days) :
       \A d \in DaySet : hasDay(course, d) => guideline.days[i][d] = TRUE
  /\ \A i \in 1..Len(guideline.times) :
       \A j \in 1..Len(course.locations) :
         /\ guideline.times[i].start_time = course.locations[j].start_time
         /\ guideline.times[i].end_time = course.locations[j].end_time

\* prisma.guidelinesCourses.count({where: {AND: [...]}})
guidelinesCoursesCount(guidelines, semester, course) ==
  Cardinality({i \in 1..Len(guidelines) :
                 /\ SemesterFilter(guidelines[i], semester)
                 /\ OtherFilters(guidelines[i], course)})

\* coursesWithinAGuideline(revision): {withinGuideline: result > 0, ...course}
coursesWithinAGuideline(guidelines, semester, revision) ==
  Array([i \in 1..Len(revision) |->
           LET result == guidelinesCoursesCount(guidelines, semester, revision[i])
           IN  [withinGuideline |-> result > 0, course |-> revision[i]]])

\* getRevision: the seven queries, then the conformance of each day's courses.
\* A revision that does not exist makes revision!.courses throw.
getRevision(store, input) ==
  IF input.tuid # "rev1" THEN [threw |-> TRUE]
  ELSE LET semester == getSemester(input)
       IN  [ threw |-> FALSE,
             semesters |-> semester,
             courses |-> [day \in DaySet |->
                            coursesWithinAGuideline(
                              store.guidelines, semester,
                              queryCoursesByDay(store.courses, input, day))] @@ <<>> ]

\* Guidelines a client adds: 3 or 4 credits, fall or winter, two meetings a
\* week on Monday and Wednesday, 9:00 to 10:15.
GuidelineInputs ==
  { SemesterFlags(code) @@
    [ credits |-> c, meeting_amount |-> 2,
      times |-> << [ start_time |-> [hour |-> 9, minute |-> 0],
                     end_time |-> [hour |-> 10, minute |-> 15] ] >>,
      days |-> << DayFlags({"day_monday", "day_wednesday"}) >> ]
    : code \in {"FA", "WI"}, c \in {3, 4} }

\* The well-formed section of the catalogue, resolved: Monday, 9:00 to 10:15.
BaseCourse == invertedNestedOrganizedColumns(Refs, SheetData(<<1>>), FullMapping)[1]

\* Its location, flagged for the days in S instead.
LocationOn(S) ==
  LET base == BaseCourse.locations[1]
  IN  [f \in DOMAIN base |-> IF f \in DaySet THEN f \in S ELSE base[f]] @@ <<>>

\* Courses a client adds: 3 credits, fall or winter, meeting Monday and
\* Wednesday at 9:00 to 10:15, stored as one location flagged for both days or
\* as one location for each day; one course the schema rejects; one whose
\* location is flagged for no day (the schema's default for every day flag);
\* one whose four semester flags are false and one that has none of the four;
\* one that also meets on Friday, at 11:00 to 12:15, in a second location.
CourseInputs ==
  { [BaseCourse EXCEPT !.credits = c, !.semester = SemesterFlags(code), !.locations = locs]
    : c \in {3}, code \in {"FA", "WI"},
      locs \in { << LocationOn({"day_monday", "day_wednesday"}) >>,
                 << LocationOn({"day_monday"}), LocationOn({"day_wednesday"}) >> } }
  \cup { [BaseCourse EXCEPT !.title = <<"A", "r", "t">>] }
  \cup { [BaseCourse EXCEPT !.locations = << LocationOn({}) >>] }
  \cup { [BaseCourse EXCEPT !.semester = SemesterFlags("")] }
  \cup { [BaseCourse EXCEPT !.semester = <<>>] }
  \cup { [BaseCourse EXCEPT !.locations =
            << LocationOn({"day_monday", "day_wednesday"}),
               [LocationOn({"day_friday"}) EXCEPT !.start_time = 1100,
                                                  !.end_time = 1215] >>] }

\* Inputs of getRevision: a revision that exists or not, one semester flag or
\* none, the credits filter absent (0) or 3.
RevisionInputs ==
  { SemesterFlags(code) @@ [tuid |-> "rev1", credits |-> c]
    : code \in {"FA", "WI", ""}, c \in {0, 3} }
  \cup { SemesterFlags("FA") @@ [tuid |-> "revX", credits |-> 0] }

ConfInit ==
  /\ cal = [guidelines |-> <<>>, courses |-> <<>>]
  /\ answer = [done |-> FALSE]
  /\ PipeIdle
  /\ TimeIdle
  /\ CellIdle
  /\ MapIdle
  /\ ResolveIdle

\* addCourseGuideline
AddCourseGuideline ==
  /\ Len(cal.guidelines) < MaxGuidelines
  /\ \E input \in GuidelineInputs :
       cal' = [cal EXCEPT !.guidelines = Append(@, GuidelineRecord(input))]
  /\ answer' = [done |-> FALSE]

\* prisma.course.create with a semester column left out of the data: the
\* column takes its default, false.
ColumnDefaults(data) ==
  [data EXCEPT !.semester =
     [f \in SemesterNames |-> IF f \in DOMAIN @ THEN @[f] ELSE FALSE]]

\* addNewRevisonCourse on the revision: the course is created and connected
\* when parseCourseData accepts it; it is stored under the next identifier.
\* A create whose data leaves the semester columns out either takes the
\* columns' defaults or is refused by the database (created = FALSE).
AddNewRevisonCourse ==
  /\ Len(cal.courses) < MaxCourses
  /\ \E course \in CourseInputs, created \in BOOLEAN :
       LET accepted == parseCourseData(course)
           data == createCourseSchema(course, "rev1")
       IN  /\ created \/ DOMAIN data.semester = SemesterNames
           /\ cal' = IF accepted /\ created
                     THEN [cal EXCEPT !.courses =
                             Append(@, [tuid |-> Len(cal.courses) + 1]
                                       @@ ColumnDefaults(data))]
                     ELSE cal
           /\ answer' = [done |-> FALSE, accepted |-> accepted,
                         semester |-> course.semester]

\* getRevision
GetRevision ==
  /\ \E input \in RevisionInputs :
       answer' = [done |-> TRUE, input |-> input, out |-> getRevision(cal, input)]
  /\ UNCHANGED cal

ConfNext ==
  \/ AddCourseGuideline /\ UNCHANGED <<pipeVars, timeVars, cellVars, mapVars, resolveVars>>
  \/ AddNewRevisonCourse /\ UNCHANGED <<pipeVars, timeVars, cellVars, mapVars, resolveVars>>
  \/ GetRevision /\ UNCHANGED <<pipeVars, timeVars, cellVars, mapVars, resolveVars>>

SpecConf == ConfInit /\ [][ConfNext]_vars

----------------------------------------------------------------------------
(* Properties of getRevision (SpecConf)                                      *)

\* The courses getRevision returned, over the seven days.
Returned ==
  IF answer.done /\ ~answer.out.threw
  THEN UNION {{answer.out.courses[d][i] : i \in 1..Len(answer.out.courses[d])} : d \in DaySet}
  ELSE {}

\* The course as it is stored, with all its locations.
Stored(entry) == cal.courses[entry.course.tuid]

\* The guideline is one for the requested semester.
ForRequestedSemester(guideline) ==
  \E f \in SemesterNames : answer.input[f] = TRUE /\ guideline[f] = TRUE

\* The stored course matches the guideline exactly: its credits, the number of
\* its meetings in a week, its day flags and its start and end times.
ExactMatch(guideline, course) ==
  /\ guideline.credits = course.credits
  /\ guideline.meeting_amount = totalMeetings(course.locations)
  /\ Len(guideline.days) >= 1
  /\ \A i \in 1..Len(guideline.days) :
       \A d \in DaySet : guideline.days[i][d] = hasDay(course, d)
  /\ Len(guideline.times) >= 1
  /\ \A i \in 1..Len(guideline.times) :
       \A j \in 1..Len(course.locations) :
         /\ guideline.times[i].start_time = course.locations[j].start_time
         /\ guideline.times[i].end_time = course.locations[j].end_time

\* C8: a returned course that exactly matches a stored guideline for the
\* requested semester has withinGuideline true; one whose credits differ from
\* the credits of every stored guideline has it false; and withinGuideline is
\* true iff the count of matching guidelines is greater than 0.
C8_ExactMatchConforms ==
  \A entry \in Returned :
    LET guidelines == cal.guidelines
    IN  /\ (\E i \in 1..Len(guidelines) :
              ForRequestedSemester(guidelines[i]) /\ ExactMatch(guidelines[i], Stored(entry)))
           => entry.withinGuideline
        /\ (\A i \in 1..Len(guidelines) : guidelines[i].credits # Stored(entry).credits)
           => ~entry.withinGuideline
        /\ entry.withinGuideline
           <=> guidelinesCoursesCount(guidelines, answer.out.semesters, entry.course) > 0

\* C9: a guideline whose flag for the requested semester is false never makes
\* a course conform: if every guideline that matches the course on credits,
\* meetings, days and times has that flag false, withinGuideline is false.
C9_OnlyRequestedSemester ==
  \A entry \in Returned :
    LET guidelines == cal.guidelines
    IN  (\A i \in 1..Len(guidelines) :
           OtherFilters(guidelines[i], entry.course) => ~ForRequestedSemester(guidelines[i]))
        => ~entry.withinGuideline

\* A course was returned that a stored guideline matches on credits, meetings,
\* days and times, every such guideline being for another semester, and it was
\* reported as not conforming.
C9_OtherSemesterGuidelineIgnored ==
  \E entry \in Returned :
    /\ \E i \in 1..Len(cal.guidelines) :
         OtherFilters(cal.guidelines[i], entry.course)
    /\ \A i \in 1..Len(cal.guidelines) :
         OtherFilters(cal.guidelines[i], entry.course)
         => ~ForRequestedSemester(cal.guidelines[i])
    /\ ~entry.withinGuideline

----------------------------------------------------------------------------
\* C10: convertTimeToMilitary returns hour*100 + minute for every text "H:MM"
\* with hour 1..12 and minute 0..59, 12 being added to the hour iff the text
\* carries a PM marker in any letter case and the hour is not 12.
C10_MilitaryValue ==
  timeOut.done =>
    LET pm == timeCase.marker \in {"PM", "pm"}
        hour == IF pm /\ timeCase.hour # 12 THEN timeCase.hour + 12 ELSE timeCase.hour
    IN  timeOut.value = hour * 100 + timeCase.minute

\* C17: every persisted day-pattern record has at least one day flag true: each
\* location of a stored course and each day record of a stored guideline.
C17_EveryDayPatternHasADay ==
  /\ \A i \in 1..Len(cal.courses) :
       \A j \in 1..Len(cal.courses[i].locations) :
         \E d \in DaySet : cal.courses[i].locations[j][d] = TRUE
  /\ \A i \in 1..Len(cal.guidelines) :
       \A j \in 1..Len(cal.guidelines[i].days) :
         \E d \in DaySet : cal.guidelines[i].days[j][d] = TRUE

\* C18: every course a write path has persisted has at least one of its four
\* semester flags true, and an input whose semester flags are all false, or all
\* absent, is rejected by validation and not written.
C18_EveryCourseHasASemester ==
  /\ \A i \in 1..Len(cal.courses) :
       \E f \in SemesterNames : cal.courses[i].semester[f] = TRUE
  /\ ~answer.done /\ "accepted" \in DOMAIN answer /\ answer.accepted
       => \E f \in DOMAIN answer.semester : answer.semester[f] = TRUE

\* The guideline's time records all equal the times of all the locations.
TimesAllEqual(guideline, locs) ==
  \A i \in 1..Len(guideline.times) :
    \A j \in 1..Len(locs) :
      /\ guideline.times[i].start_time = locs[j].start_time
      /\ guideline.times[i].end_time = locs[j].end_time

\* C23: the time dimension of conformance is an AND over all combinations: a
\* guideline satisfies it iff every one of its time records equals the start
\* and end time of every Location of the course, so a course with two
\* Locations that differ in time never conforms to a guideline that has a
\* time record.
C23_TimesOfEveryLocation ==
  \A entry \in Returned :
    entry.withinGuideline
      => \E i \in 1..Len(cal.guidelines) :
           TimesAllEqual(cal.guidelines[i], Stored(entry).locations)

\* C24: the meeting count compared with meeting_amount is the number of day
\* flags over all the persisted Locations of the course, so the withinGuideline
\* reported for a course is the same in every day bucket of one response.
C24_SameInEveryBucket ==
  /\ \A entry \in Returned :
       entry.withinGuideline
         => \E i \in 1..Len(cal.guidelines) :
              cal.guidelines[i].meeting_amount = totalMeetings(Stored(entry).locations)
  /\ \A a \in Returned : \A b \in Returned :
       a.course.tuid = b.course.tuid => a.withinGuideline = b.withinGuideline

====
